---------------------------- MODULE Spec2Model ----------------------------
(***************************************************************************)
(* A model of the CHIP-8 interpreter of src/src/chip8.rs and of the host   *)
(* loop of src/src/main.rs that drives it.                                 *)
(*                                                                         *)
(* The struct Chip8 is the record chip8.  main's position is phase:        *)
(* "new" after Chip8::new(), "running" inside the event loop, "aborted"    *)
(* once a panic has unwound main.  A panic is recorded in panic; the       *)
(* record keeps the fields as they were when the panic was raised.         *)
(***************************************************************************)
EXTENDS Integers, Sequences, FiniteSets, TLC

VARIABLES
    chip8,            \* the struct Chip8 owned by main
    phase,            \* "new" | "running" | "aborted"
    panic,            \* the panic that aborted the process, NoPanic if none
    rom,              \* cli.rom: which ROM file main was started with
    load_result,      \* what load_rom returned: "none" before the call, "Ok" after
    overflow_checks,  \* the build: TRUE = debug (overflow panics), FALSE = release (wraps)
    steps,            \* number of handle_op calls made so far
    prev,             \* what the last handle_op call started from (see Before)
    prev2,            \* what the handle_op call before the last started from
    held,             \* the key the window last reported down, NoKey after a release
    calls             \* the 2nnn calls that have not returned yet (see open_calls)

vars == <<chip8, phase, panic, rom, load_result, overflow_checks, steps, prev, prev2,
          held, calls>>

(***************************************************************************)
(* Program constants.                                                      *)
(***************************************************************************)
SCREEN_WIDTH == 64
SCREEN_HEIGHT == 32
MEM_COUNT == 4096
REG_COUNT == 16
STACK_COUNT == 16
CARRY_REG == 15
PROGRAM_OFFSET == 512
FONT_OFFSET == 80
FONT_SIZE == 5
FONT_COUNT == 16

FONT_SET ==
    << \HF0, \H90, \H90, \H90, \HF0,
       \H20, \H60, \H20, \H20, \H70,
       \HF0, \H10, \HF0, \H80, \HF0,
       \HF0, \H10, \HF0, \H10, \HF0,
       \H90, \H90, \HF0, \H10, \H10,
       \HF0, \H80, \HF0, \H10, \HF0,
       \HF0, \H80, \HF0, \H90, \HF0,
       \HF0, \H10, \H20, \H40, \H40,
       \HF0, \H90, \HF0, \H90, \HF0,
       \HF0, \H90, \HF0, \H10, \HF0,
       \HF0, \H90, \HF0, \H90, \H90,
       \HE0, \H90, \HE0, \H90, \HE0,
       \HF0, \H80, \H80, \H80, \HF0,
       \HE0, \H90, \H90, \H90, \HE0,
       \HF0, \H80, \HF0, \H80, \HF0,
       \HF0, \H80, \HF0, \H80, \H80 >>

(***************************************************************************)
(* Bound of the model: the number of handle_op calls a run makes.          *)
(***************************************************************************)
MaxSteps == 18

(***************************************************************************)
(* Machine integers.  Byte = u8, Word = u16.                               *)
(***************************************************************************)
Byte == 0..255
Word == 0..65535

RECURSIVE BitAnd(_, _)
BitAnd(a, b) ==
    IF a = 0 \/ b = 0 THEN 0
    ELSE (a % 2) * (b % 2) + 2 * BitAnd(a \div 2, b \div 2)

RECURSIVE BitOr(_, _)
BitOr(a, b) ==
    IF a = 0 THEN b
    ELSE IF b = 0 THEN a
    ELSE (IF a % 2 = 1 \/ b % 2 = 1 THEN 1 ELSE 0) + 2 * BitOr(a \div 2, b \div 2)

RECURSIVE BitXor(_, _)
BitXor(a, b) ==
    IF a = 0 THEN b
    ELSE IF b = 0 THEN a
    ELSE ((a + b) % 2) + 2 * BitXor(a \div 2, b \div 2)

\* a >> k and the low byte of a << k
Shr(a, k) == a \div (2 ^ k)
Shl8(a, k) == (a * (2 ^ k)) % 256

wrapping_add(a, b) == (a + b) % 256
wrapping_sub(a, b) == (a - b + 256) % 256
checked_add_is_none(a, b) == a + b > 255

NoPanic == "none"
IndexOutOfBounds == "index out of bounds"
StackUnderflowPanic == "Stack underflow"
CapacityErrorPanic == "CapacityError: insufficient capacity"
AddOverflowPanic == "attempt to add with overflow"
SubOverflowPanic == "attempt to subtract with overflow"

(***************************************************************************)
(* Chip8::new and load_fonts.  The display, [[bool; 64]; 32], is the set   *)
(* of the <<row, column>> pairs whose pixel is true.                       *)
(***************************************************************************)
load_fonts(memory) ==
    [a \in 0..(MEM_COUNT - 1) |->
        IF a >= FONT_OFFSET /\ a < FONT_OFFSET + FONT_SIZE * FONT_COUNT
        THEN FONT_SET[a - FONT_OFFSET + 1]
        ELSE memory[a]]

new ==
    [display |-> {},
     memory |-> load_fonts([a \in 0..(MEM_COUNT - 1) |-> 0]),
     registers |-> [i \in 0..(REG_COUNT - 1) |-> 0],
     index |-> 0,
     program_counter |-> PROGRAM_OFFSET,
     stack |-> <<>>,
     delay_timer |-> 0,
     sound_timer |-> 0,
     op |-> 0,
     key |-> 0]

(***************************************************************************)
(* load_rom: one read() into memory[PROGRAM_OFFSET..].  The read fills at  *)
(* most the MEM_COUNT - PROGRAM_OFFSET bytes of the slice, whatever the    *)
(* length of the file, and the function returns Ok(()).                    *)
(***************************************************************************)
Min(a, b) == IF a < b THEN a ELSE b

\* a read that stops one byte before the end of the slice
loaded_count_one_short(bytes) == Min(Len(bytes), MEM_COUNT - PROGRAM_OFFSET - 1)

loaded_count(bytes) == Min(Len(bytes), MEM_COUNT - PROGRAM_OFFSET)

load_rom(c, bytes) ==
    [c EXCEPT !.memory =
        [a \in 0..(MEM_COUNT - 1) |->
            IF a >= PROGRAM_OFFSET /\ a < PROGRAM_OFFSET + loaded_count(bytes)
            THEN bytes[a - PROGRAM_OFFSET + 1]
            ELSE c.memory[a]]]

(***************************************************************************)
(* The result of a handler: the struct, and the panic it raised if any.    *)
(***************************************************************************)
Ok(c) == [c |-> c, panic |-> NoPanic]
Panicked(c, msg) == [c |-> c, panic |-> msg]

\* the fields of an instruction word
OpFamily(op) == op \div 4096        \* (op & 0xF000) >> 12
OpX(op) == (op \div 256) % 16       \* (op & 0x0F00) >> 8
OpY(op) == (op \div 16) % 16        \* (op & 0x00F0) >> 4
OpN(op) == op % 16                  \* op & 0x000F
OpKK(op) == op % 256                \* op & 0x00FF
OpNNN(op) == op % 4096              \* op & 0x0FFF

\* decrement_timers without the tests for zero: the u8 wraps from 0 to 255
decrement_timers_wrapping(c) ==
    [c EXCEPT !.delay_timer = wrapping_sub(@, 1),
              !.sound_timer = wrapping_sub(@, 1)]

decrement_timers(c) ==
    [c EXCEPT !.delay_timer = IF @ > 0 THEN @ - 1 ELSE @,
              !.sound_timer = IF @ > 0 THEN @ - 1 ELSE @]

\* clear_or_return treating every 0nnn that is not 00EE as 00E0
clear_or_return_clears(c) ==
    CASE OpKK(c.op) = \HEE ->
            IF Len(c.stack) = 0
            THEN Panicked(c, StackUnderflowPanic)
            ELSE Ok([c EXCEPT !.program_counter = c.stack[Len(c.stack)],
                              !.stack = SubSeq(c.stack, 1, Len(c.stack) - 1)])
      [] OTHER -> Ok([c EXCEPT !.display = {}])

\* clear_or_return taking the oldest entry of the stack instead of the newest
clear_or_return_fifo(c) ==
    CASE OpKK(c.op) = \HE0 -> Ok([c EXCEPT !.display = {}])
      [] OpKK(c.op) = \HEE ->
            IF Len(c.stack) = 0
            THEN Panicked(c, StackUnderflowPanic)
            ELSE Ok([c EXCEPT !.program_counter = c.stack[1],
                              !.stack = Tail(c.stack)])
      [] OTHER -> Ok(c)

clear_or_return(c) ==
    CASE OpKK(c.op) = \HE0 -> Ok([c EXCEPT !.display = {}])
      [] OpKK(c.op) = \HEE ->
            IF Len(c.stack) = 0
            THEN Panicked(c, StackUnderflowPanic)
            ELSE Ok([c EXCEPT !.program_counter = c.stack[Len(c.stack)],
                              !.stack = SubSeq(c.stack, 1, Len(c.stack) - 1)])
      [] OTHER -> Ok(c)

jump_addr(c) == Ok([c EXCEPT !.program_counter = OpNNN(c.op)])

jump_addr_offset(c) ==
    Ok([c EXCEPT !.program_counter = OpNNN(c.op) + c.registers[0]])

\* call_addr with a growable stack: the push never fails
call_addr_unbounded(c) ==
    Ok([c EXCEPT !.stack = Append(c.stack, c.program_counter),
                 !.program_counter = OpNNN(c.op)])

\* call_addr that saves the address of the instruction after the call
call_addr_pushes_next(c) ==
    IF Len(c.stack) >= STACK_COUNT
    THEN Panicked(c, CapacityErrorPanic)
    ELSE Ok([c EXCEPT !.stack = Append(c.stack, c.program_counter + 2),
                      !.program_counter = OpNNN(c.op)])

\* ArrayVec::push unwraps try_push: a push onto a full stack panics
call_addr(c) ==
    IF Len(c.stack) >= STACK_COUNT
    THEN Panicked(c, CapacityErrorPanic)
    ELSE Ok([c EXCEPT !.stack = Append(c.stack, c.program_counter),
                      !.program_counter = OpNNN(c.op)])

skip_eq_byte(c) ==
    IF c.registers[OpX(c.op)] = OpKK(c.op)
    THEN Ok([c EXCEPT !.program_counter = @ + 2]) ELSE Ok(c)

skip_ne_byte(c) ==
    IF c.registers[OpX(c.op)] # OpKK(c.op)
    THEN Ok([c EXCEPT !.program_counter = @ + 2]) ELSE Ok(c)

skip_eq_reg(c) ==
    IF c.registers[OpX(c.op)] = c.registers[OpY(c.op)]
    THEN Ok([c EXCEPT !.program_counter = @ + 2]) ELSE Ok(c)

skip_ne_reg(c) ==
    IF c.registers[OpX(c.op)] # c.registers[OpY(c.op)]
    THEN Ok([c EXCEPT !.program_counter = @ + 2]) ELSE Ok(c)

load_byte(c) == Ok([c EXCEPT !.registers[OpX(c.op)] = OpKK(c.op)])

add_byte(c) ==
    Ok([c EXCEPT !.registers[OpX(c.op)] = wrapping_add(@, OpKK(c.op))])

(***************************************************************************)
(* logical_op.  The arms that write two registers write them in the order  *)
(* of the source: r1 is the register file after the first write, and the   *)
(* second write reads r1.                                                  *)
(***************************************************************************)
logical_op(c, oc) ==
    LET x == OpX(c.op)
        y == OpY(c.op)
        r == c.registers
    IN  CASE OpN(c.op) = 0 -> Ok([c EXCEPT !.registers[x] = r[y]])
          [] OpN(c.op) = 1 -> Ok([c EXCEPT !.registers[x] = BitOr(r[x], r[y])])
          [] OpN(c.op) = 2 -> Ok([c EXCEPT !.registers[x] = BitAnd(r[x], r[y])])
          [] OpN(c.op) = 3 -> Ok([c EXCEPT !.registers[x] = BitXor(r[x], r[y])])
          [] OpN(c.op) = 4 ->
                LET overflow == checked_add_is_none(r[x], r[y])
                    r1 == [r EXCEPT ![x] = wrapping_add(r[x], r[y])]
                IN  Ok([c EXCEPT !.registers =
                           [r1 EXCEPT ![CARRY_REG] = IF overflow THEN 1 ELSE 0]])
          [] OpN(c.op) = 5 ->
                LET r1 == [r EXCEPT ![CARRY_REG] = IF r[x] > r[y] THEN 1 ELSE 0]
                IN  Ok([c EXCEPT !.registers =
                           [r1 EXCEPT ![x] = wrapping_sub(r1[x], r1[y])]])
          [] OpN(c.op) = 6 ->
                LET r1 == [r EXCEPT ![CARRY_REG] = BitAnd(r[x], 1)]
                IN  Ok([c EXCEPT !.registers = [r1 EXCEPT ![x] = Shr(r1[x], 1)]])
          [] OpN(c.op) = 7 ->
                LET r1 == [r EXCEPT ![CARRY_REG] = IF r[y] > r[x] THEN 1 ELSE 0]
                IN  IF r1[y] < r1[x] /\ oc
                    THEN Panicked([c EXCEPT !.registers = r1], SubOverflowPanic)
                    ELSE Ok([c EXCEPT !.registers =
                               [r1 EXCEPT ![x] = wrapping_sub(r1[y], r1[x])]])
          [] OpN(c.op) = 14 ->
                LET r1 == [r EXCEPT ![CARRY_REG] = Shr(BitAnd(r[x], \H80), 7)]
                IN  Ok([c EXCEPT !.registers = [r1 EXCEPT ![x] = Shl8(r1[x], 1)]])
          [] OTHER -> Ok(c)

set_index(c) == Ok([c EXCEPT !.index = OpNNN(c.op)])

\* rnd is the byte rand::random::<Byte>() returned
rand(c, rnd) == Ok([c EXCEPT !.registers[OpX(c.op)] = BitAnd(rnd, OpKK(c.op))])

(***************************************************************************)
(* draw.  draw_row is the inner loop (w in 0..8) of one sprite row and     *)
(* draw_rows the outer loop (h in 0..h); both carry the display and the    *)
(* flag and stop at the first panic.  x + w and y + h are u8 additions and *)
(* index + h a u16 addition: with overflow checks they panic, without      *)
(* they wrap.                                                              *)
(***************************************************************************)
\* draw_row setting the pixels of the sprite instead of toggling them
RECURSIVE draw_row_sets(_, _, _, _, _, _, _, _)
draw_row_sets(d, vf, line, x, y, h, w, oc) ==
    IF w = 8 THEN [display |-> d, vf |-> vf, panic |-> NoPanic]
    ELSE IF BitAnd(Shr(line, 7 - w), 1) # 1
    THEN draw_row_sets(d, vf, line, x, y, h, w + 1, oc)
    ELSE IF oc /\ (x + w > 255 \/ y + h > 255)
    THEN [display |-> d, vf |-> vf, panic |-> AddOverflowPanic]
    ELSE LET px == ((x + w) % 256) % SCREEN_WIDTH
             py == ((y + h) % 256) % SCREEN_HEIGHT
             lit == <<py, px>> \in d
         IN  draw_row_sets(d \cup {<<py, px>>},
                           IF lit THEN 1 ELSE vf,
                           line, x, y, h, w + 1, oc)

RECURSIVE draw_row(_, _, _, _, _, _, _, _)
draw_row(d, vf, line, x, y, h, w, oc) ==
    IF w = 8 THEN [display |-> d, vf |-> vf, panic |-> NoPanic]
    ELSE IF BitAnd(Shr(line, 7 - w), 1) # 1
    THEN draw_row(d, vf, line, x, y, h, w + 1, oc)
    ELSE IF oc /\ (x + w > 255 \/ y + h > 255)
    THEN [display |-> d, vf |-> vf, panic |-> AddOverflowPanic]
    ELSE LET px == ((x + w) % 256) % SCREEN_WIDTH
             py == ((y + h) % 256) % SCREEN_HEIGHT
             lit == <<py, px>> \in d
         IN  draw_row(IF lit THEN d \ {<<py, px>>} ELSE d \cup {<<py, px>>},
                      IF lit THEN 1 ELSE vf,
                      line, x, y, h, w + 1, oc)

RECURSIVE draw_rows(_, _, _, _, _, _, _, _)
draw_rows(c, d, vf, x, y, n, h, oc) ==
    IF h = n THEN [display |-> d, vf |-> vf, panic |-> NoPanic]
    ELSE IF oc /\ c.index + h > 65535
    THEN [display |-> d, vf |-> vf, panic |-> AddOverflowPanic]
    ELSE LET addr == (c.index + h) % 65536 IN
         IF addr >= MEM_COUNT
         THEN [display |-> d, vf |-> vf, panic |-> IndexOutOfBounds]
         ELSE LET row == draw_row(d, vf, c.memory[addr], x, y, h, 0, oc) IN
              IF row.panic # NoPanic THEN row
              ELSE draw_rows(c, row.display, row.vf, x, y, n, h + 1, oc)

draw(c, oc) ==
    LET x == c.registers[OpX(c.op)]
        y == c.registers[OpY(c.op)]
        r == draw_rows(c, c.display, 0, x, y, OpN(c.op), 0, oc)
    IN  Panicked([c EXCEPT !.registers[CARRY_REG] = r.vf, !.display = r.display],
                 r.panic)

keyboard_op(c) ==
    CASE OpKK(c.op) = \H9E ->
            IF c.key = c.registers[OpX(c.op)]
            THEN Ok([c EXCEPT !.program_counter = @ + 2]) ELSE Ok(c)
      [] OpKK(c.op) = \HA1 ->
            IF c.key # c.registers[OpX(c.op)]
            THEN Ok([c EXCEPT !.program_counter = @ + 2]) ELSE Ok(c)
      [] OTHER -> Ok(c)

(***************************************************************************)
(* misc_op.  A memory access at index + i with index + i >= MEM_COUNT      *)
(* panics; the accesses before it have been made.                          *)
(***************************************************************************)
bcd_digit(v, i) ==
    CASE i = 0 -> v \div 100
      [] i = 1 -> (v \div 10) % 10
      [] OTHER -> v % 10

\* store_bytes one address too low
store_bytes_one_below(memory, base, values) ==
    [a \in 0..(MEM_COUNT - 1) |->
        IF a + 1 >= base /\ a + 1 < base + Len(values)
        THEN values[a + 1 - base + 1] ELSE memory[a]]

\* memory[base + i] = values[i + 1] for every i < Len(values) with base + i in bounds
store_bytes(memory, base, values) ==
    [a \in 0..(MEM_COUNT - 1) |->
        IF a >= base /\ a < base + Len(values) THEN values[a - base + 1] ELSE memory[a]]

misc_op(c, oc) ==
    LET reg == OpX(c.op)
        r == c.registers
    IN  CASE OpKK(c.op) = \H07 -> Ok([c EXCEPT !.registers[reg] = c.delay_timer])
          [] OpKK(c.op) = \H0A -> Ok([c EXCEPT !.registers[reg] = c.key])
          [] OpKK(c.op) = \H15 -> Ok([c EXCEPT !.delay_timer = r[reg]])
          [] OpKK(c.op) = \H18 -> Ok([c EXCEPT !.sound_timer = r[reg]])
          [] OpKK(c.op) = \H1E ->
                IF oc /\ c.index + r[reg] > 65535
                THEN Panicked(c, AddOverflowPanic)
                ELSE Ok([c EXCEPT !.index = (c.index + r[reg]) % 65536])
          [] OpKK(c.op) = \H29 -> Ok([c EXCEPT !.index = r[reg] * 5])
          [] OpKK(c.op) = \H33 ->
                LET digits == [i \in 1..3 |-> bcd_digit(r[reg], i - 1)]
                    c1 == [c EXCEPT !.memory = store_bytes(c.memory, c.index, digits)]
                IN  IF c.index + 2 >= MEM_COUNT
                    THEN Panicked(c1, IndexOutOfBounds) ELSE Ok(c1)
          [] OpKK(c.op) = \H55 ->
                LET regs == [i \in 1..(reg + 1) |-> r[i - 1]]
                    c1 == [c EXCEPT !.memory = store_bytes(c.memory, c.index, regs)]
                IN  IF c.index + reg >= MEM_COUNT
                    THEN Panicked(c1, IndexOutOfBounds)
                    ELSE Ok([c1 EXCEPT !.index = c.index + reg + 1])
          [] OpKK(c.op) = \H65 ->
                LET c1 == [c EXCEPT !.registers =
                              [i \in 0..(REG_COUNT - 1) |->
                                  IF i <= reg /\ c.index + i < MEM_COUNT
                                  THEN c.memory[c.index + i] ELSE r[i]]]
                IN  IF c.index + reg >= MEM_COUNT
                    THEN Panicked(c1, IndexOutOfBounds)
                    ELSE Ok([c1 EXCEPT !.index = c.index + reg + 1])
          [] OTHER -> Ok(c)

(***************************************************************************)
(* handle_op: decrement the timers, fetch, dispatch, advance.              *)
(***************************************************************************)
dispatch(c, rnd, oc) ==
    CASE OpFamily(c.op) = 0 -> clear_or_return(c)
      [] OpFamily(c.op) = 1 -> jump_addr(c)
      [] OpFamily(c.op) = 11 -> jump_addr_offset(c)
      [] OpFamily(c.op) = 2 -> call_addr(c)
      [] OpFamily(c.op) = 3 -> skip_eq_byte(c)
      [] OpFamily(c.op) = 4 -> skip_ne_byte(c)
      [] OpFamily(c.op) = 5 -> skip_eq_reg(c)
      [] OpFamily(c.op) = 9 -> skip_ne_reg(c)
      [] OpFamily(c.op) = 6 -> load_byte(c)
      [] OpFamily(c.op) = 7 -> add_byte(c)
      [] OpFamily(c.op) = 8 -> logical_op(c, oc)
      [] OpFamily(c.op) = 10 -> set_index(c)
      [] OpFamily(c.op) = 12 -> rand(c, rnd)
      [] OpFamily(c.op) = 13 -> draw(c, oc)
      [] OpFamily(c.op) = 14 -> keyboard_op(c)
      [] OTHER -> misc_op(c, oc)

\* a return that counts as a jump, so that no advance follows it
sets_jump_with_return(op) == OpFamily(op) \in {1, 11, 2} \/ op = \H00EE

sets_jump(op) == OpFamily(op) \in {1, 11, 2}

fetch(c) ==
    IF c.program_counter >= MEM_COUNT \/ c.program_counter + 1 >= MEM_COUNT
    THEN Panicked(c, IndexOutOfBounds)
    ELSE Ok([c EXCEPT !.op = c.memory[c.program_counter] * 256
                                + c.memory[c.program_counter + 1]])

handle_op(c, rnd, oc) ==
    LET f == fetch(decrement_timers(c)) IN
    IF f.panic # NoPanic THEN f
    ELSE LET r == dispatch(f.c, rnd, oc) IN
         IF r.panic # NoPanic \/ sets_jump(f.c.op) THEN r
         ELSE Ok([r.c EXCEPT !.program_counter = @ + 2])

(***************************************************************************)
(* The ROM files main may be started with.  A file is its sequence of      *)
(* bytes; Words lays big-endian instruction words out as bytes, and Padded *)
(* extends a file with a fill byte to a given length.                      *)
(***************************************************************************)
Words(ws) ==
    [i \in 1..(2 * Len(ws)) |->
        IF i % 2 = 1 THEN ws[(i + 1) \div 2] \div 256 ELSE ws[i \div 2] % 256]

Padded(bytes, len, fill) ==
    [i \in 1..len |-> IF i <= Len(bytes) THEN bytes[i] ELSE fill]

HandRoms ==
    << \* calls and returns
       Words(<< \H2200 >>),
       Words(<< \H00EE >>),
       Words(<< \H2204, \H1202, \H2208, \H00EE, \H00EE >>),
       Words(<< \H2206, \H220A, \H1204, \H6005, \H00EE, \H2206, \H00EE >>),
       \* runaway program counter and index register
       Words(<< \H1FFF >>),
       Words(<< \H1FFE >>),
       Words(<< \HBFFF >>),
       Words(<< \HAFFE, \H607B, \HF033 >>),
       Words(<< \HAFFF, \H6107, \HF155 >>),
       Words(<< \HAFFF, \HF165 >>),
       Words(<< \HAFFF, \H6001, \HF01E, \HF055 >>),
       Words(<< \HAFFF, \HD002 >>),
       \* stores near and into the font table
       Words(<< \HA050, \H607B, \HF033, \H1206 >>),
       Words(<< \HA04E, \H60FF, \HF033, \H1206 >>),
       Words(<< \HA04D, \H60FF, \HF033, \H1206 >>),
       Words(<< \HA09F, \H6011, \H6122, \HF155, \H1208 >>),
       Words(<< \HA0A0, \H6011, \H6122, \HF155, \HF165, \H120A >>),
       Words(<< \HA300, \H607B, \HF033, \HA300, \HF265, \HF029, \H120C >>),
       \* timers
       Words(<< \H6002, \HF015, \HF018, \HF207, \H6301, \HF315, \HF318, \H00E0 >>),
       Words(<< \H60FF, \HF015, \HF018, \HF107 >>),
       \* unmapped sub-opcodes
       Words(<< \H6105, \HA050, \HD115, \H6203, \HF215, \H220E, \H0000,
                \H0123, \H8128, \HE1FF, \HF1FF, \H812F, \H00E1, \H5121, \H9121 >>),
       Words(<< \H8009, \H800A, \H800B, \H800C, \H800D, \HE000, \HF000, \HF0FF,
                \H00FF, \H0FFF >>),
       \* sprites
       Words(<< \HA050, \HD015, \HD015, \H1206 >>),
       Words(<< \HA05A, \H603D, \H611E, \HD015, \HD015, \H120A >>),
       Words(<< \HA050, \H603F, \H611F, \HD015, \HD015, \H120A >>),
       Words(<< \HA050, \H60FD, \H61FE, \HD015, \HD015, \H120A >>),
       Words(<< \HA050, \HD005, \H6002, \H6101, \HA055, \HD015, \HD015, \H120E >>),
       Words(<< \HA20C, \H6007, \H6113, \HD01F, \HD01F, \H120A,
                \HFF81, \H0055, \HAA3C, \H1800, \HFFFF, \H0180, \H7E42, \H4201 >>),
       Words(<< \HA050, \H6F05, \HDFF5, \HDFF5, \H1208 >>),
       Words(<< \HA06E, \HDFF5, \HDFF5, \H1206 >>),
       Words(<< \HA050, \HD015, \HA055, \HD015, \H00E0, \HD010, \H120A >>),
       \* arithmetic, skips, keys, random numbers
       Words(<< \H6005, \H610A, \H8015, \H8017, \H8014, \H8016, \H801E, \H7AFF,
                \H7A02, \H8A10, \H8A11, \H8A12, \H8A13 >>),
       Words(<< \H60FF, \H6101, \H8014, \H8105, \H8F07, \H80F5, \H8FF6, \H8FFE >>),
       Words(<< \H3000, \H0000, \H4000, \H5010, \H6101, \H9010, \H0000, \H3101,
                \H0000, \H4001, \H0000, \H1216 >>),
       Words(<< \HE09E, \HE0A1, \H0000, \HF10A, \HE19E, \H0000, \HE1A1, \H0000,
                \H1210 >>),
       Words(<< \HC003, \HB204, \H1204, \H1206, \H1208 >>),
       \* subtractions, shifts and additions whose flag and operand share VF
       Words(<< \H600A, \H6105, \H8017, \H1FFF >>),
       Words(<< \H6005, \H6F03, \H80F5, \H1FFF >>),
       Words(<< \H6F05, \H6103, \H8F15, \H6F03, \H8F06, \H6F81, \H8F0E, \H6F03,
                \H6105, \H8F17, \H6FFF, \H8F14, \H1FFF >>),
       \* a glyph looked up and drawn
       Words(<< \H600A, \HF029, \HD005, \H1FFF >>),
       \* files that fill, and overfill, the program area
       Padded(Words(<< \H1200 >>), MEM_COUNT - PROGRAM_OFFSET, \HAB),
       Padded(Words(<< \H1200 >>), MEM_COUNT - PROGRAM_OFFSET + 1, \HAB),
       Padded(Words(<< \H6001 >>), MEM_COUNT - PROGRAM_OFFSET + 2, \H60)
    >>

(***************************************************************************)
(* A family of ROMs that draw one sprite twice: for every origin of        *)
(* DrawXs x DrawYs and every sprite of DrawSprites (address and height),   *)
(* on a clear framebuffer and on one where glyph 0 has been drawn at       *)
(* (0, 0).  The program ends by jumping to 0xFFF.                          *)
(***************************************************************************)
DrawXs == << 0, 2, 61, 63, 253 >>
DrawYs == << 0, 1, 29, 254 >>
DrawSprites ==
    << [addr |-> \H050, n |-> 5], [addr |-> \H09B, n |-> 5],
       [addr |-> \H200, n |-> 15], [addr |-> \H202, n |-> 1] >>

DrawRom(x, y, sprite, prelit) ==
    Words((IF prelit THEN << \HA050, \HD225 >> ELSE << >>)
          \o << \HA000 + sprite.addr, \H6000 + x, \H6100 + y,
                \HD010 + sprite.n, \HD010 + sprite.n, \H1FFF >>)

DrawRoms ==
    [i \in 1..(2 * Len(DrawXs) * Len(DrawYs) * Len(DrawSprites)) |->
        LET k == (i - 1) \div 2
            s == k % Len(DrawSprites)
            y == (k \div Len(DrawSprites)) % Len(DrawYs)
            x == k \div (Len(DrawSprites) * Len(DrawYs))
        IN  DrawRom(DrawXs[x + 1], DrawYs[y + 1], DrawSprites[s + 1], i % 2 = 0)]

RomFiles == HandRoms \o DrawRoms

\* the keys the host presses in a run: codes of key_mapping ('X', '1' and 'V')
KeyCodes == {0, 1, 15}

\* what the host last reported: no key is down at start-up and after a release
NoKey == 16

\* the calls that have not returned yet, each with the address of its 2nnn and
\* the stack depth it found; r is what handle_op returned for the step from c
open_calls(cs, c, r) ==
    IF r.panic # NoPanic THEN cs
    ELSE IF OpFamily(r.c.op) = 2
    THEN Append(cs, [site |-> c.program_counter, depth |-> Len(c.stack)])
    ELSE IF OpFamily(r.c.op) = 0 /\ OpKK(r.c.op) = 238 /\ cs # <<>>
    THEN SubSeq(cs, 1, Len(cs) - 1)
    ELSE cs

\* the fields of the struct a handle_op call starts from, kept for comparison
Before(c) ==
    [op |-> c.op,
     display |-> c.display,
     registers |-> c.registers,
     index |-> c.index,
     program_counter |-> c.program_counter,
     stack |-> c.stack,
     delay_timer |-> c.delay_timer,
     sound_timer |-> c.sound_timer]

(***************************************************************************)
(* main.                                                                   *)
(***************************************************************************)
Init ==
    /\ chip8 = new
    /\ phase = "new"
    /\ panic = NoPanic
    /\ rom \in 1..Len(RomFiles)
    /\ load_result = "none"
    /\ overflow_checks \in BOOLEAN
    /\ steps = 0
    /\ prev = Before(new)
    /\ prev2 = Before(new)
    /\ held = NoKey
    /\ calls = <<>>

\* chip8.load_rom(rom.as_str()).expect(..)
LoadRom ==
    /\ phase = "new"
    /\ chip8' = load_rom(chip8, RomFiles[rom])
    /\ load_result' = "Ok"
    /\ phase' = "running"
    /\ UNCHANGED <<panic, rom, overflow_checks, steps, prev, prev2, held, calls>>

\* the bytes rand::random may return to the coming handle_op call
RandomBytes(c) ==
    IF c.program_counter < MEM_COUNT /\ c.memory[c.program_counter] \div 16 = 12
    THEN Byte ELSE {0}

\* Event::MainEventsCleared: chip8.handle_op()
Step ==
    /\ phase = "running"
    /\ steps < MaxSteps
    /\ \E rnd \in RandomBytes(chip8) :
          LET r == handle_op(chip8, rnd, overflow_checks) IN
          /\ chip8' = r.c
          /\ panic' = r.panic
          /\ phase' = IF r.panic = NoPanic THEN "running" ELSE "aborted"
          /\ calls' = open_calls(calls, chip8, r)
    /\ steps' = steps + 1
    /\ prev' = Before(chip8)
    /\ prev2' = prev
    /\ UNCHANGED <<rom, load_result, overflow_checks, held>>

\* WindowEvent::KeyboardInput for a mapped key that is not Released
KeyPressed ==
    /\ phase = "running"
    /\ \E k \in KeyCodes :
          /\ chip8' = [chip8 EXCEPT !.key = k]
          /\ held' = k
    /\ UNCHANGED <<phase, panic, rom, load_result, overflow_checks, steps, prev, prev2, calls>>

\* WindowEvent::KeyboardInput for a mapped key, Released
KeyReleased ==
    /\ phase = "running"
    /\ chip8' = [chip8 EXCEPT !.key = 0]
    /\ held' = NoKey
    /\ UNCHANGED <<phase, panic, rom, load_result, overflow_checks, steps, prev, prev2, calls>>

Next == LoadRom \/ Step \/ KeyPressed \/ KeyReleased

Spec == Init /\ [][Next]_vars

TypeOK ==
    /\ chip8.display \subseteq (0..(SCREEN_HEIGHT - 1)) \X (0..(SCREEN_WIDTH - 1))
    /\ \A a \in 0..(MEM_COUNT - 1) : chip8.memory[a] \in Byte
    /\ \A i \in 0..(REG_COUNT - 1) : chip8.registers[i] \in Byte
    /\ chip8.index \in Word
    /\ chip8.program_counter \in Word
    /\ \A i \in 1..Len(chip8.stack) : chip8.stack[i] \in Word
    /\ chip8.delay_timer \in Byte
    /\ chip8.sound_timer \in Byte
    /\ chip8.op \in Word
    /\ chip8.key \in Byte
    /\ phase \in {"new", "running", "aborted"}
    /\ (phase = "aborted") = (panic # NoPanic)

(***************************************************************************)
(* What the host sees of the last handle_op call.  handle_op returns (),   *)
(* so a call that returns reports nothing; a call that panics unwinds main *)
(* and reports nothing either.                                             *)
(***************************************************************************)
StepReturned == IF phase = "aborted" THEN "unwound" ELSE "()"

\* the last handle_op call fetched its instruction word, which is chip8.op
Fetched == steps > 0 /\ prev.program_counter + 1 < MEM_COUNT

\* the last handle_op call fetched and executed the word op
Executed(op) == Fetched /\ chip8.op = op

ProgramCapacity == MEM_COUNT - PROGRAM_OFFSET

(***************************************************************************)
(* C1.  In every reachable state the call stack holds at most 16 return    *)
(* addresses.                                                              *)
(***************************************************************************)
C1_StackWithinCapacity == Len(chip8.stack) <= STACK_COUNT

\* sixteen nested calls have been made
C1_Witness == Len(chip8.stack) = STACK_COUNT /\ phase = "running"

(***************************************************************************)
(* C2.  A 2nnn executed with fewer than 16 entries on the stack succeeds,  *)
(* and a 2nnn executed with 16 entries on the stack fails with             *)
(* StackOverflow, reported to the host as the result of the step, without  *)
(* aborting the process.                                                   *)
(***************************************************************************)
C2_CallAtCapacityReportsStackOverflow ==
    (Fetched /\ OpFamily(chip8.op) = 2) =>
        IF Len(prev.stack) < STACK_COUNT
        THEN /\ phase = "running"
             /\ chip8.stack = Append(prev.stack, prev.program_counter)
        ELSE /\ phase # "aborted"
             /\ StepReturned = "StackOverflow"
             /\ chip8.stack = prev.stack

(***************************************************************************)
(* C3.  A 00EE executed with an empty stack fails with StackUnderflow,     *)
(* reported to the host as the result of the step, without aborting the    *)
(* process.                                                                *)
(***************************************************************************)
C3_ReturnOnEmptyReportsStackUnderflow ==
    (Executed(\H00EE) /\ Len(prev.stack) = 0) =>
        /\ phase # "aborted"
        /\ StepReturned = "StackUnderflow"

(***************************************************************************)
(* C4.  A step that would read or write memory at an address >= 4096 (the  *)
(* fetch, a sprite row, the BCD store, a register store or load) fails     *)
(* with MemoryFault signalled to the host.                                 *)
(***************************************************************************)
\* the last handle_op call had an access at an address >= MEM_COUNT to make
AccessBeyondMemory ==
    /\ steps > 0
    /\ \/ prev.program_counter + 1 >= MEM_COUNT
       \/ /\ OpFamily(chip8.op) = 13 /\ OpN(chip8.op) > 0
          /\ prev.index + OpN(chip8.op) - 1 >= MEM_COUNT
       \/ /\ OpFamily(chip8.op) = 15 /\ OpKK(chip8.op) = \H33
          /\ prev.index + 2 >= MEM_COUNT
       \/ /\ OpFamily(chip8.op) = 15 /\ OpKK(chip8.op) \in {\H55, \H65}
          /\ prev.index + OpX(chip8.op) >= MEM_COUNT

C4_AccessBeyondMemoryReportsMemoryFault ==
    AccessBeyondMemory =>
        /\ phase # "aborted"
        /\ StepReturned = "MemoryFault"

(***************************************************************************)
(* C5.  Loading a ROM of more than 3584 bytes fails with RomTooLarge and   *)
(* leaves every byte of memory as it was before the load.                  *)
(***************************************************************************)
C5_OversizedRomRejected ==
    (load_result # "none" /\ Len(RomFiles[rom]) > ProgramCapacity) =>
        /\ load_result = "RomTooLarge"
        /\ steps = 0 => chip8.memory = new.memory

(***************************************************************************)
(* C6.  As claimed: the 80 bytes at 0x050..0x0A0 equal the font table in   *)
(* every reachable state.                                                  *)
(***************************************************************************)
FontTable(memory) == [i \in 1..(FONT_SIZE * FONT_COUNT) |-> memory[FONT_OFFSET + i - 1]]

C6_FontTableNeverOverwritten == FontTable(chip8.memory) = FONT_SET

\* the word op is an Fx33 or Fx55 that, run with the index register at index,
\* stores to at least one address of the font table
StoresIntoFontTable(op, index) ==
    /\ OpFamily(op) = 15
    /\ index < FONT_OFFSET + FONT_SIZE * FONT_COUNT
    /\ \/ OpKK(op) = \H33 /\ index + 2 >= FONT_OFFSET
       \/ OpKK(op) = \H55 /\ index + OpX(op) >= FONT_OFFSET

(***************************************************************************)
(* C6, amended.  The font table is in place after construction, and no     *)
(* transition (the ROM load, a key event, a step) changes a byte of it     *)
(* except a step executing Fx33 or Fx55 whose stored range index..index+2, *)
(* or index..index+x, reaches into 0x050..0x09F.                           *)
(***************************************************************************)
C6_FontTableChangedOnlyByStoreIntoIt ==
    /\ (phase = "new" => FontTable(chip8.memory) = FONT_SET)
    /\ [][ \/ FontTable(chip8'.memory) = FontTable(chip8.memory)
           \/ /\ steps' = steps + 1
              /\ chip8.program_counter + 1 < MEM_COUNT
              /\ StoresIntoFontTable(chip8'.op, chip8.index) ]_vars

\* a store next to the font table has been executed and the table is in place
C6_Witness ==
    /\ Fetched /\ phase = "running"
    /\ OpFamily(chip8.op) = 15 /\ OpKK(chip8.op) \in {\H33, \H55}
    /\ prev.index \in {FONT_OFFSET - 3, FONT_OFFSET + FONT_SIZE * FONT_COUNT}
    /\ chip8.memory[prev.index] # 0
    /\ FontTable(chip8.memory) = FONT_SET

(***************************************************************************)
(* C7.  After every step each timer is its value before the step minus 1   *)
(* if that was nonzero and 0 if it was 0, unless the step executed Fx15    *)
(* (delay timer) or Fx18 (sound timer).                                    *)
(***************************************************************************)
Decremented(t) == IF t > 0 THEN t - 1 ELSE 0

C7_TimersDecrementToZero ==
    steps > 0 =>
        /\ ~(Fetched /\ OpFamily(chip8.op) = 15 /\ OpKK(chip8.op) = \H15)
              => chip8.delay_timer = Decremented(prev.delay_timer)
        /\ ~(Fetched /\ OpFamily(chip8.op) = 15 /\ OpKK(chip8.op) = \H18)
              => chip8.sound_timer = Decremented(prev.sound_timer)

\* two steps in a row have left the delay timer at 0, the first from 1
C7_Witness ==
    /\ steps > 2 /\ phase = "running"
    /\ prev2.delay_timer = 1 /\ prev.delay_timer = 0 /\ chip8.delay_timer = 0
    /\ prev2.sound_timer > 1

(***************************************************************************)
(* C8.  A 2nnn pushes the program counter it was fetched at, a 00EE        *)
(* removes exactly the newest entry, which is the value it continues from, *)
(* and leaves the older entries in place and in order; no other            *)
(* instruction touches the stack.                                          *)
(***************************************************************************)
C8_ReturnPopsNewestCall ==
    (Fetched /\ phase = "running") =>
        CASE OpFamily(chip8.op) = 2 ->
                chip8.stack = Append(prev.stack, prev.program_counter)
          [] OpFamily(chip8.op) = 0 /\ OpKK(chip8.op) = \HEE ->
                /\ chip8.stack = SubSeq(prev.stack, 1, Len(prev.stack) - 1)
                /\ chip8.program_counter = prev.stack[Len(prev.stack)] + 2
          [] OTHER -> chip8.stack = prev.stack

\* a return from the inner of two nested calls
C8_Witness ==
    /\ Executed(\H00EE) /\ phase = "running"
    /\ Len(prev.stack) = 2 /\ prev.stack[1] # prev.stack[2]
    /\ chip8.stack = <<prev.stack[1]>>

(***************************************************************************)
(* C9.  A step whose instruction word matches no mapped opcode does not    *)
(* fail, advances the program counter by exactly 2 and leaves registers,   *)
(* index register, stack, memory and framebuffer unchanged; the timers     *)
(* take their per-step decrement.                                          *)
(***************************************************************************)
Unmapped(op) ==
    \/ OpFamily(op) = 0 /\ OpKK(op) \notin {\HE0, \HEE}
    \/ OpFamily(op) = 8 /\ OpN(op) \notin (0..7) \cup {14}
    \/ OpFamily(op) = 14 /\ OpKK(op) \notin {\H9E, \HA1}
    \/ OpFamily(op) = 15
         /\ OpKK(op) \notin {\H07, \H0A, \H15, \H18, \H1E, \H29, \H33, \H55, \H65}

SpritePixels(memory, index, n, x, y) ==
    { <<(y + r) % SCREEN_HEIGHT, (x + b) % SCREEN_WIDTH>> :
        <<r, b>> \in { p \in (0..(n - 1)) \X (0..7) :
                         (memory[index + p[1]] \div (2 ^ (7 - p[2]))) % 2 = 1 } }

\* the last two steps both executed the draw instruction chip8.op, from the
\* same origin register values
DrawnTwice ==
    /\ steps >= 2 /\ phase = "running"
    /\ OpFamily(chip8.op) = 13 /\ prev.op = chip8.op
    /\ prev2.registers[OpX(chip8.op)] = prev.registers[OpX(chip8.op)]
    /\ prev2.registers[OpY(chip8.op)] = prev.registers[OpY(chip8.op)]
    /\ prev2.index = prev.index

C10_DrawTwiceRestoresFramebuffer ==
    DrawnTwice =>
        LET sprite == SpritePixels(chip8.memory, prev.index, OpN(chip8.op),
                                   prev.registers[OpX(chip8.op)],
                                   prev.registers[OpY(chip8.op)])
        IN  /\ chip8.display = prev2.display
            /\ (sprite # {} /\ sprite \cap prev2.display = {})
                  => chip8.registers[CARRY_REG] = 1

\* a sprite drawn twice over a framebuffer that already had pixels lit
C10_Witness ==
    /\ DrawnTwice
    /\ OpN(chip8.op) > 0
    /\ prev2.display # {}
    /\ prev.display # prev2.display
    /\ chip8.display = prev2.display

(***************************************************************************)
(* C11.  For every value 0..255 of the two origin registers and every      *)
(* height 0..15, Dxyn completes without failing and toggles exactly the    *)
(* pixels under the set bits of the sprite, bit b (most significant first) *)
(* of row r at column (Vx + b) mod 64 and row (Vy + r) mod 32: no set bit  *)
(* is clipped, and a sprite drawn at column 63 or row 31 continues in      *)
(* column 0 or row 0.  The statement is taken over the draws whose sprite  *)
(* rows all lie inside memory.                                             *)
(***************************************************************************)
\* the pixels lit in exactly one of two framebuffers
Toggled(before, after) == (before \ after) \cup (after \ before)

\* the last handle_op call fetched a Dxyn whose sprite rows lie inside memory
DrawFetched ==
    /\ Fetched
    /\ OpFamily(chip8.op) = 13
    /\ prev.index + OpN(chip8.op) <= MEM_COUNT

C11_DrawWrapsAtEveryOrigin ==
    DrawFetched =>
        /\ phase = "running"
        /\ Toggled(prev.display, chip8.display) =
              SpritePixels(chip8.memory, prev.index, OpN(chip8.op),
                           prev.registers[OpX(chip8.op)],
                           prev.registers[OpY(chip8.op)])

(***************************************************************************)
(* C12.  For all values of Vx and Vy, with x and y other than 15 and Vx    *)
(* greater than Vy included, 8xy7 completes without aborting and leaves    *)
(* Vx = (old Vy - old Vx) mod 256 and VF = 1 if old Vy > old Vx, else 0.   *)
(***************************************************************************)
\* the last handle_op call fetched the 8xyN instruction chip8.op with N = n
LogicalFetched(n) ==
    /\ Fetched
    /\ OpFamily(chip8.op) = 8
    /\ OpN(chip8.op) = n

C12_ReverseSubtractCompletes ==
    (/\ LogicalFetched(7)
     /\ OpX(chip8.op) # CARRY_REG
     /\ OpY(chip8.op) # CARRY_REG) =>
        LET vx == prev.registers[OpX(chip8.op)]
            vy == prev.registers[OpY(chip8.op)]
        IN  /\ phase = "running"
            /\ chip8.registers[OpX(chip8.op)] = (vy - vx) % 256
            /\ chip8.registers[CARRY_REG] = IF vy > vx THEN 1 ELSE 0

(***************************************************************************)
(* C13.  For x in 0..14 and every y in 0..15, y = 15 included, 8xy5 leaves *)
(* Vx = (old Vx - old Vy) mod 256 and VF = 1 if old Vx > old Vy, else 0:   *)
(* the Vy subtracted is the value the register held before the step.       *)
(***************************************************************************)
C13_SubtractUsesOperandsBeforeStep ==
    (LogicalFetched(5) /\ OpX(chip8.op) # CARRY_REG) =>
        LET vx == prev.registers[OpX(chip8.op)]
            vy == prev.registers[OpY(chip8.op)]
        IN  /\ phase = "running"
            /\ chip8.registers[OpX(chip8.op)] = (vx - vy) % 256
            /\ chip8.registers[CARRY_REG] = IF vx > vy THEN 1 ELSE 0

(***************************************************************************)
(* C14.  After Fx29 executed with Vx = d in 0..15 the index register is    *)
(* the address of glyph d in memory: memory[index + i] is byte i of glyph  *)
(* d for i in 0..4, so that a following Dxy5 draws the glyph.              *)
(***************************************************************************)
\* the last handle_op call fetched the Fxkk instruction chip8.op with kk = kk
MiscFetched(kk) ==
    /\ Fetched
    /\ OpFamily(chip8.op) = 15
    /\ OpKK(chip8.op) = kk

C14_FontIndexAddressesGlyph ==
    (MiscFetched(41) /\ prev.registers[OpX(chip8.op)] < FONT_COUNT) =>
        /\ phase = "running"
        /\ \A i \in 0..(FONT_SIZE - 1) :
              chip8.memory[chip8.index + i] =
                  FONT_SET[prev.registers[OpX(chip8.op)] * FONT_SIZE + i + 1]

(***************************************************************************)
(* C15.  Loading a ROM of at most 3584 bytes into a freshly constructed    *)
(* machine succeeds; afterwards memory[0x200 + i] is byte i of the ROM for *)
(* every i below its length, and every other byte of memory has its value  *)
(* from construction: the font table at 0x050..0x09F and zero elsewhere.   *)
(***************************************************************************)
\* load_rom has returned and no instruction has been executed yet
JustLoaded == phase # "new" /\ steps = 0

C15_RomLoadedAtProgramOffset ==
    (JustLoaded /\ Len(RomFiles[rom]) <= ProgramCapacity) =>
        /\ load_result = "Ok"
        /\ phase = "running"
        /\ \A a \in 0..(MEM_COUNT - 1) :
              chip8.memory[a] =
                  IF a >= PROGRAM_OFFSET /\ a < PROGRAM_OFFSET + Len(RomFiles[rom])
                  THEN RomFiles[rom][a - PROGRAM_OFFSET + 1]
                  ELSE IF a >= FONT_OFFSET /\ a < FONT_OFFSET + FONT_SIZE * FONT_COUNT
                  THEN FONT_SET[a - FONT_OFFSET + 1]
                  ELSE 0

\* a ROM of exactly 3584 bytes has been loaded, its last byte at 0xFFF
C15_Witness ==
    /\ JustLoaded
    /\ Len(RomFiles[rom]) = ProgramCapacity
    /\ chip8.memory[MEM_COUNT - 1] = RomFiles[rom][ProgramCapacity]
    /\ chip8.memory[MEM_COUNT - 1] # 0
    /\ chip8.memory[PROGRAM_OFFSET - 1] = 0

(***************************************************************************)
(* C16.  In 8xy4, 8xy5, 8xy6, 8xy7 and 8xyE the flag is the last write:    *)
(* when x = 15, register 15 holds after the step the flag computed from    *)
(* the register values before the step (carry, no-borrow, or the bit       *)
(* shifted out), not the result of the addition, subtraction or shift.     *)
(***************************************************************************)
\* the flag of the 8xyN instruction op for the operand values vx and vy
FlagOf(op, vx, vy) ==
    CASE OpN(op) = 4  -> IF vx + vy > 255 THEN 1 ELSE 0
      [] OpN(op) = 5  -> IF vx > vy THEN 1 ELSE 0
      [] OpN(op) = 6  -> vx % 2
      [] OpN(op) = 7  -> IF vy > vx THEN 1 ELSE 0
      [] OpN(op) = 14 -> vx \div 128

\* the last handle_op call completed a flag-setting 8xyN whose destination is VF
FlagIsDestination ==
    /\ Fetched
    /\ phase = "running"
    /\ OpFamily(chip8.op) = 8
    /\ OpN(chip8.op) \in {4, 5, 6, 7, 14}
    /\ OpX(chip8.op) = CARRY_REG

C16_FlagWrittenLast ==
    FlagIsDestination =>
        chip8.registers[CARRY_REG] =
            FlagOf(chip8.op, prev.registers[CARRY_REG], prev.registers[OpY(chip8.op)])

(***************************************************************************)
(* C17.  As stated: the final advance of the program counter by 2 is not   *)
(* applied after a return, so that after a 00EE executed with a non-empty  *)
(* stack the program counter is exactly the value popped, as it is exactly *)
(* the target after 1nnn, Bnnn and 2nnn.                                   *)
(***************************************************************************)
\* the last handle_op call fetched a return and found an entry on the stack
ReturnFetched ==
    /\ Fetched
    /\ OpFamily(chip8.op) = 0 /\ OpKK(chip8.op) = \HEE
    /\ prev.stack # <<>>

C17_ReturnLeavesPoppedValue ==
    ReturnFetched =>
        /\ phase = "running"
        /\ chip8.program_counter = prev.stack[Len(prev.stack)]

\* the instruction words whose handler may add 2 to the program counter
IsSkip(op) ==
    \/ OpFamily(op) \in {3, 4, 5, 9}
    \/ OpFamily(op) = 14 /\ OpKK(op) \in {\H9E, \HA1}

(***************************************************************************)
(* C17, amended.  The final advance by 2 is left out only after 1nnn, Bnnn *)
(* and 2nnn, which leave the program counter exactly at their target (nnn, *)
(* nnn + V0, nnn).  It is applied after every other instruction, the       *)
(* return included: after a 00EE executed with a non-empty stack the       *)
(* program counter is the value popped plus 2, after a conditional skip it *)
(* is 2 or 4 past the instruction, and after anything else 2 past it.      *)
(***************************************************************************)
C17_AdvanceSkippedOnlyForJumpAndCall ==
    (Fetched /\ phase = "running") =>
        CASE OpFamily(chip8.op) \in {1, 2} ->
                chip8.program_counter = OpNNN(chip8.op)
          [] OpFamily(chip8.op) = 11 ->
                chip8.program_counter = OpNNN(chip8.op) + prev.registers[0]
          [] ReturnFetched ->
                chip8.program_counter = prev.stack[Len(prev.stack)] + 2
          [] IsSkip(chip8.op) ->
                chip8.program_counter \in
                    {prev.program_counter + 2, prev.program_counter + 4}
          [] OTHER ->
                chip8.program_counter = prev.program_counter + 2

\* a return has continued two bytes past the address it popped
C17_Witness ==
    /\ ReturnFetched /\ phase = "running"
    /\ chip8.program_counter = prev.stack[Len(prev.stack)] + 2
    /\ chip8.program_counter # prev.program_counter + 2

(***************************************************************************)
(* C18.  A conditional skip (3xkk, 4xkk, 5xy0, 9xy0, Ex9E, ExA1) executed  *)
(* at program counter p leaves the program counter at p + 4 when its       *)
(* condition holds and at p + 2 when it does not, and changes nothing else *)
(* but the timers.  The condition of Ex9E is that the key now down is the  *)
(* key Vx, that of ExA1 that it is not; with no key down the first is      *)
(* false and the second true.                                              *)
(***************************************************************************)
\* the condition of the skip instruction op for register values v, when the
\* key down is k (NoKey when none is)
SkipCondition(op, v, k) ==
    CASE OpFamily(op) = 3 -> v[OpX(op)] = OpKK(op)
      [] OpFamily(op) = 4 -> v[OpX(op)] # OpKK(op)
      [] OpFamily(op) = 5 -> v[OpX(op)] = v[OpY(op)]
      [] OpFamily(op) = 9 -> v[OpX(op)] # v[OpY(op)]
      [] OpFamily(op) = 14 /\ OpKK(op) = \H9E -> k = v[OpX(op)]
      [] OpFamily(op) = 14 /\ OpKK(op) = \HA1 -> k # v[OpX(op)]

\* this transition is a handle_op call that fetches a conditional skip
SkipStep ==
    /\ steps' = steps + 1
    /\ chip8.program_counter + 1 < MEM_COUNT
    /\ IsSkip(chip8'.op)

\* the transition changes nothing of the machine but program counter and timers
OnlyProgramCounterAndTimersChange ==
    /\ chip8'.registers = chip8.registers
    /\ chip8'.index = chip8.index
    /\ chip8'.stack = chip8.stack
    /\ chip8'.memory = chip8.memory
    /\ chip8'.display = chip8.display
    /\ chip8'.key = chip8.key

C18_SkipAdvancesByTwoOrFour ==
    [][SkipStep =>
          /\ phase' = "running"
          /\ chip8'.program_counter =
                IF SkipCondition(chip8'.op, chip8.registers, held)
                THEN chip8.program_counter + 4
                ELSE chip8.program_counter + 2
          /\ OnlyProgramCounterAndTimersChange]_vars

(***************************************************************************)
(* C19.  While no key is down (from construction until the first key       *)
(* press, and after any key release whatever was pressed before), a step   *)
(* executing Ex9E never skips and a step executing ExA1 always skips, for  *)
(* every value of Vx, 0 included: no key down is never taken for key 0     *)
(* being down.                                                             *)
(***************************************************************************)
\* this transition is a handle_op call that fetches Ex9E or ExA1 with no key down
KeySkipStepWithNoKey ==
    /\ SkipStep
    /\ OpFamily(chip8'.op) = 14
    /\ held = NoKey

C19_NoKeyIsNotKeyZero ==
    [][KeySkipStepWithNoKey =>
          chip8'.program_counter =
              IF OpKK(chip8'.op) = \H9E
              THEN chip8.program_counter + 2
              ELSE chip8.program_counter + 4]_vars

(***************************************************************************)
(* C20.  A subroutine call resumes after the call site: when a 2nnn is     *)
(* executed at program counter a, the return that pops the entry pushed by *)
(* that call leaves the program counter at a + 2 and the stack as deep as  *)
(* it was before the call.  The calls that have not returned are kept in   *)
(* calls, one for each entry of the stack and in the same order.           *)
(***************************************************************************)
\* this transition is a handle_op call that completes a return
ReturnStep ==
    /\ steps' = steps + 1
    /\ chip8.program_counter + 1 < MEM_COUNT
    /\ OpFamily(chip8'.op) = 0 /\ OpKK(chip8'.op) = \HEE
    /\ phase' = "running"

C20_ReturnResumesAfterCallSite ==
    /\ [](Len(calls) = Len(chip8.stack))
    /\ [][ReturnStep =>
            /\ calls # <<>>
            /\ chip8'.program_counter = calls[Len(calls)].site + 2
            /\ Len(chip8'.stack) = calls[Len(calls)].depth]_vars

\* the inner of two nested calls has returned to the instruction after its 2nnn
C20_Witness ==
    /\ ReturnFetched /\ phase = "running"
    /\ Len(calls) = 1 /\ Len(chip8.stack) = 1
    /\ chip8.program_counter > calls[1].site + 2
    /\ chip8.memory[chip8.program_counter - 2] \div 16 = 2

=============================================================================
